---- MODULE Spec2Model ----
(***************************************************************************)
(* A model of datagen_sdk/client.py: DatagenClient.__init__ and            *)
(* DatagenClient.execute_tool (authenticated POST, two nested envelopes,   *)
(* typed errors, retry with exponential backoff).                          *)
(*                                                                         *)
(* Python values are written as strings: "None" is Python's None, "" the   *)
(* empty string.  JSON values are written as tagged strings: "absent" (the *)
(* key is not in the object), "null", "false", "true", "num:0", "str:"     *)
(* (the empty string), "str:X", "arr:[]", "arr:[1]", "obj:{}",             *)
(* "obj:{status:ok}".  Durations are in milliseconds.                      *)
(***************************************************************************)
EXTENDS Integers, Sequences, FiniteSets, TLC

VARIABLES
    env,               \* os.environ's DATAGEN_API_KEY ("None" when unset)
    json_error_class,  \* what resp.json() raises on a body that is not JSON
    constructed,       \* "new", "ok" (the client exists) or "failed"
    ctorArgs,          \* the arguments __init__ was called with
    ctorErr,           \* the exception __init__ raised, if any
    client,            \* the DatagenClient's attributes
    calls,             \* per caller: the frame of its execute_tool call
    previous           \* per caller: the frame its call before this one left

vars ==
    <<env, json_error_class, constructed, ctorArgs, ctorErr, client, calls,
      previous>>

----------------------------------------------------------------------------
(* Bounds of the model *)

MaxRetries == 2
MaxNegRetries == 1
MaxUrlLen == 3
MaxSleeps == 3
MaxCallers == 2

(* Program constants *)

DefaultTimeout == 30
DefaultBackoffMs == 500
TestBackoffMs == 10

DefaultBaseUrl == <<"h">>

RetryChoices == (0 - MaxNegRetries)..MaxRetries
BackoffChoices == {TestBackoffMs, DefaultBackoffMs}

----------------------------------------------------------------------------
(* Python truthiness *)

\* bool(v) of a str-or-None value
PyTruthy(v) == v \notin {"None", ""}

\* a or b
PyOr(a, b) == IF PyTruthy(a) THEN a ELSE b

\* bool(v) of a parsed JSON value; an absent key reads as the default False
JsonTruthy(v) ==
    v \notin {"absent", "null", "false", "num:0", "str:", "arr:[]", "obj:{}"}

----------------------------------------------------------------------------
(* Exceptions *)

Exc(class, status, detail) ==
    [class |-> class, status |-> status, detail |-> detail]

NoExc == Exc("None", 0, "")

\* The direct base classes of each exception class.
Bases(class) ==
    CASE class = "DatagenError" -> {"Exception"}
      [] class = "DatagenAuthError" -> {"DatagenError"}
      [] class = "DatagenToolError" -> {"DatagenError"}
      [] class = "DatagenHttpError" -> {"DatagenError"}
      [] class = "requests.ConnectionError" -> {"requests.RequestException"}
      [] class = "requests.JSONDecodeError" ->
            {"requests.RequestException", "json.JSONDecodeError"}
      [] class = "requests.RequestException" -> {"OSError"}
      [] class = "json.JSONDecodeError" -> {"ValueError"}
      [] class = "OSError" -> {"Exception"}
      [] class = "ValueError" -> {"Exception"}
      [] class = "AttributeError" -> {"Exception"}
      [] OTHER -> {}

RECURSIVE IsSubclass(_, _)
IsSubclass(class, base) ==
    \/ class = base
    \/ \E b \in Bases(class) : IsSubclass(b, base)

CaughtBadAuth(class) ==
    \/ IsSubclass(class, "requests.RequestException")
    \/ IsSubclass(class, "DatagenHttpError")
    \/ IsSubclass(class, "DatagenAuthError")

CaughtBadNoHttp(class) ==
    IsSubclass(class, "requests.RequestException")

\* except (requests.RequestException, DatagenHttpError) as exc
Caught(class) ==
    \/ IsSubclass(class, "requests.RequestException")
    \/ IsSubclass(class, "DatagenHttpError")

----------------------------------------------------------------------------
(* __init__ *)

RstripOnce(s) ==
    IF s # <<>> /\ s[Len(s)] = "/" THEN SubSeq(s, 1, Len(s) - 1) ELSE s

RECURSIVE Rstrip(_)

\* base_url.rstrip("/")
Rstrip(s) ==
    IF s # <<>> /\ s[Len(s)] = "/"
    THEN Rstrip(SubSeq(s, 1, Len(s) - 1))
    ELSE s

Args(api_key, base_url, timeout, retries, backoff_seconds) ==
    [api_key |-> api_key, base_url |-> base_url, timeout |-> timeout,
     retries |-> retries, backoff_seconds |-> backoff_seconds]

NoArgs == Args("None", <<>>, 0, 0, 0)

StoredRetriesBadClamped(retries) == IF retries < 0 THEN 0 ELSE retries

\* self.retries = retries: the argument is stored as given
StoredRetries(retries) == retries

ResolveKeyArgOnly(api_key, environ) == api_key

\* api_key or os.getenv("DATAGEN_API_KEY")
ResolveKey(api_key, environ) == PyOr(api_key, environ)

IdleCall ==
    [pc |-> "idle", tool |-> "None", parameters |-> "None", attempt |-> 0,
     last_exc |-> NoExc, history |-> <<>>, sleeps |-> <<>>,
     outcome |-> [kind |-> "none", exc |-> NoExc, value |-> "None"]]

Construct(api_key, base_url, timeout, retries, backoff_seconds) ==
    /\ constructed = "new"
    /\ ctorArgs' = Args(api_key, base_url, timeout, retries, backoff_seconds)
    /\ LET key == ResolveKey(api_key, env) IN
       IF ~PyTruthy(key)
       THEN /\ constructed' = "failed"
            /\ ctorErr' = Exc("DatagenAuthError", 0, "API key missing")
            /\ client' = client
       ELSE /\ constructed' = "ok"
            /\ ctorErr' = ctorErr
            /\ client' = Args(key, Rstrip(base_url), timeout,
                              StoredRetries(retries), backoff_seconds)
    /\ UNCHANGED <<env, json_error_class, calls, previous>>

----------------------------------------------------------------------------
(* The backend's answers to one requests.post *)

Resp(status, body, text, success, data, isuccess, ierror, result) ==
    [status |-> status, body |-> body, text |-> text, success |-> success,
     data |-> data, isuccess |-> isuccess, ierror |-> ierror,
     result |-> result]

\* requests.post raised (connection refused, timeout): there is no response
TransportFailure ==
    Resp(0, "none", "", "absent", "absent", "absent", "absent", "absent")

TextBody(status) ==
    Resp(status, "text", "Server Error", "absent", "absent", "absent",
         "absent", "absent")

\* a body that parses as JSON but is not an object, such as []
NonObjectBody(status) ==
    Resp(status, "nonobj", "[]", "absent", "absent", "absent", "absent",
         "absent")

\* {"success": success} with no data field
OuterOnly(status, success) ==
    Resp(status, "obj", "json", success, "absent", "absent", "absent",
         "absent")

\* {"success": success, "data": <a JSON value that is not an object>}
DataNotObject(status, success) ==
    Resp(status, "obj", "json", success, "nonobj", "absent", "absent",
         "absent")

\* {"success": success, "data": {"success": .., "error": .., "result": ..}}
Envelope(status, success, isuccess, ierror, result) ==
    Resp(status, "obj", "json", success, "obj", isuccess, ierror, result)

ResultValues ==
    {"absent", "null", "false", "num:0", "str:", "str:X", "arr:[1]",
     "obj:{status:ok}"}

ErrorValues == {"absent", "str:", "str:X"}

Responses ==
    {TransportFailure}
    \cup {TextBody(s) : s \in {200, 400, 401, 403, 500, 503}}
    \cup {NonObjectBody(200)}
    \cup {OuterOnly(200, s) : s \in {"absent", "false", "true"}}
    \cup {DataNotObject(200, "true")}
    \cup {Envelope(s, "true", "true", "absent", "str:X") : s \in {401, 500}}
    \cup {Envelope(200, "false", "true", "absent", "str:X")}
    \cup {Envelope(200, "true", f, e, "absent") :
             f \in {"absent", "false"}, e \in ErrorValues}
    \cup {Envelope(200, "true", "true", "absent", r) : r \in ResultValues}

FewResponses ==
    {TextBody(500), Envelope(200, "true", "true", "absent", "str:X")}

----------------------------------------------------------------------------
(* execute_tool *)

Return(value) == [kind |-> "return", exc |-> NoExc, value |-> value]
Raise(exc) == [kind |-> "raise", exc |-> exc, value |-> "None"]

ToolNameMissingBadNoneOnly(tool) == tool = "None"

\* not tool_alias_name
ToolNameMissing(tool) == ~PyTruthy(tool)

\* parameters or {}
BodyParameters(parameters) ==
    IF parameters \in {"None", "{}"} THEN "{}" ELSE parameters

RangeLenBadNoPlusOne(retries) == retries

\* range(self.retries + 1): the number of iterations is this, when positive
RangeLen(retries) == retries + 1

BackoffDelayBadLinear(backoff_seconds, attempt) ==
    backoff_seconds * (attempt + 1)

\* self.backoff_seconds * (2 ** attempt)
BackoffDelay(backoff_seconds, attempt) == backoff_seconds * (2 ^ attempt)

ToolErrorMessageBadAlwaysGeneric(ierror) == "Tool reported failure"

\* tool_payload.get("error") or "Tool reported failure"
ToolErrorMessage(ierror) ==
    IF JsonTruthy(ierror) THEN ierror ELSE "Tool reported failure"

ResultOfBadOrNone(result) == IF JsonTruthy(result) THEN result ELSE "null"

\* tool_payload.get("result"): None (JSON null) when the key is absent
ResultOf(result) == IF result = "absent" THEN "null" ELSE result

\* resp.status_code == 401 or resp.status_code == 403
IsAuthStatus(status) == status = 401 \/ status = 403

IsErrorStatusBadServerOnly(status) == status >= 500

\* resp.status_code >= 400
IsErrorStatus(status) == status >= 400

OuterFailedBadMissingOk(success) == success = "false"

\* not payload.get("success", False)
OuterFailed(success) == ~JsonTruthy(success)

\* The try block of one loop iteration, given what requests.post produced:
\* the value it returns or the exception it raises.
Classify(r, decode_error) ==
    IF r.body = "none"
    THEN Raise(Exc("requests.ConnectionError", 0, ""))
    ELSE IF IsAuthStatus(r.status)
    THEN Raise(Exc("DatagenAuthError", r.status, r.text))
    ELSE IF IsErrorStatus(r.status)
    THEN Raise(Exc("DatagenHttpError", r.status, r.text))
    ELSE IF r.body = "text"
    THEN Raise(Exc(decode_error, 0, r.text))
    ELSE IF r.body = "nonobj"
    THEN Raise(Exc("AttributeError", 0, "get"))
    ELSE IF OuterFailed(r.success)
    THEN Raise(Exc("DatagenHttpError", 0, "Unexpected response"))
    ELSE IF r.data = "nonobj"
    THEN Raise(Exc("AttributeError", 0, "get"))
    ELSE IF ~JsonTruthy(r.isuccess)
    THEN Raise(Exc("DatagenToolError", 0, ToolErrorMessage(r.ierror)))
    ELSE Return(ResultOf(r.result))

\* The statements after the for loop.
AfterLoop(last_exc) ==
    IF last_exc # NoExc
    THEN Raise(last_exc)
    ELSE Raise(Exc("DatagenError", 0, "Unknown error during tool execution"))

MayRetryBadLessEq(attempt, retries) == attempt <= retries

\* if attempt < self.retries
MayRetry(attempt, retries) == attempt < retries

ReraiseBadFirst(last_exc, exc) == IF last_exc # NoExc THEN last_exc ELSE exc

\* the bare `raise` of the except clause: the exception being handled, exc,
\* whatever last_exc held before this iteration
Reraise(last_exc, exc) == exc

LoopVarBadShared(c) ==
    LET top == CHOOSE d \in DOMAIN calls :
                   \A e \in DOMAIN calls : calls[d].attempt >= calls[e].attempt
    IN calls[top].attempt

\* attempt, the loop variable: a local of caller c's own frame
LoopVar(c) == calls[c].attempt

SelfAfterAttemptBadCountdown(self) == [self EXCEPT !.retries = @ - 1]

\* the loop body reads self.retries, self.timeout, self.backoff_seconds and
\* assigns no attribute of self
SelfAfterAttempt(self) == self

\* The frame of a call that has just entered execute_tool: the argument
\* check, the request, last_exc = None and the loop's entry.
Enter(tool, parameters) ==
    LET f == [IdleCall EXCEPT !.tool = tool, !.parameters = parameters] IN
    IF ToolNameMissing(tool)
    THEN [f EXCEPT !.pc = "done",
                   !.outcome = Raise(Exc("ValueError", 0,
                                         "tool_alias_name is required"))]
    ELSE IF RangeLen(client.retries) <= 0
    THEN [f EXCEPT !.parameters = BodyParameters(parameters),
                   !.pc = "done", !.outcome = AfterLoop(NoExc)]
    ELSE [f EXCEPT !.parameters = BodyParameters(parameters),
                   !.pc = "post", !.attempt = 0]

\* The frame f after one iteration of the loop with loop variable attempt:
\* requests.post answers r (or fails), the try block classifies it and the
\* except clause decides between sleeping and raising.
Iterate(f, r, attempt) ==
    LET g == [f EXCEPT !.history = Append(@, r)]
        o == Classify(r, json_error_class)
    IN IF o.kind = "return"
       THEN [g EXCEPT !.pc = "done", !.outcome = o]
       ELSE IF Caught(o.exc.class)
       THEN IF MayRetry(attempt, client.retries)
            THEN [g EXCEPT !.last_exc = o.exc, !.pc = "sleep",
                           !.sleeps = Append(@,
                               BackoffDelay(client.backoff_seconds, attempt))]
            ELSE [g EXCEPT !.last_exc = o.exc, !.pc = "done",
                           !.outcome = Raise(Reraise(f.last_exc, o.exc))]
       ELSE [g EXCEPT !.pc = "done", !.outcome = o]

\* The frame f after time.sleep returned and `continue` asked the for loop
\* for its next value.
Continue(f, attempt) ==
    IF attempt + 1 < RangeLen(client.retries)
    THEN [f EXCEPT !.pc = "post", !.attempt = attempt + 1]
    ELSE [f EXCEPT !.pc = "done", !.outcome = AfterLoop(f.last_exc)]

\* execute_tool is called on a client by a caller with no call running.
ExecuteTool(c, tool, parameters) ==
    /\ constructed = "ok"
    /\ calls[c].pc = "idle"
    /\ calls' = [calls EXCEPT ![c] = Enter(tool, parameters)]
    /\ UNCHANGED <<env, json_error_class, constructed, ctorArgs, ctorErr,
                   client, previous>>

\* The caller's call has returned or raised and the caller calls
\* execute_tool again, on the same client.
ExecuteToolAgain(c, tool, parameters) ==
    /\ constructed = "ok"
    /\ calls[c].pc = "done"
    /\ previous' = [previous EXCEPT ![c] = calls[c]]
    /\ calls' = [calls EXCEPT ![c] = Enter(tool, parameters)]
    /\ UNCHANGED <<env, json_error_class, constructed, ctorArgs, ctorErr,
                   client>>

\* One iteration of caller c's loop.
Post(c, r) ==
    /\ calls[c].pc = "post"
    /\ calls' = [calls EXCEPT ![c] = Iterate(calls[c], r, LoopVar(c))]
    /\ client' = SelfAfterAttempt(client)
    /\ UNCHANGED <<env, json_error_class, constructed, ctorArgs, ctorErr,
                   previous>>

\* time.sleep returns and `continue` starts the next iteration, if any.
Wake(c) ==
    /\ calls[c].pc = "sleep"
    /\ calls' = [calls EXCEPT ![c] = Continue(calls[c], LoopVar(c))]
    /\ UNCHANGED <<env, json_error_class, constructed, ctorArgs, ctorErr,
                   client, previous>>

----------------------------------------------------------------------------
(* Specifications *)

Callers == {1}

ToolNames == {"None", "", "t"}
ParameterValues == {"None", "{}", "{param:value}"}

InitFor(environ, callers) ==
    /\ env \in environ
    /\ json_error_class \in {"requests.JSONDecodeError", "json.JSONDecodeError"}
    /\ constructed = "new"
    /\ ctorArgs = NoArgs
    /\ ctorErr = NoExc
    /\ client = NoArgs
    /\ calls = [c \in callers |-> IdleCall]
    /\ previous = [c \in callers |-> IdleCall]

InitWith(environ) == InitFor(environ, Callers)

\* One client with a small configuration space against every backend answer.
Init == InitWith({"None"})

Next ==
    \/ \E k \in {"None", "k1"}, n \in RetryChoices, b \in BackoffChoices :
          Construct(k, DefaultBaseUrl, DefaultTimeout, n, b)
    \/ \E c \in Callers, t \in ToolNames, p \in ParameterValues :
          ExecuteTool(c, t, p)
    \/ \E c \in Callers, r \in Responses : Post(c, r)
    \/ \E c \in Callers : Wake(c)

Spec == Init /\ [][Next]_vars

\* Every constructor argument against a backend with two answers.
Urls == UNION {[1..n -> {"h", "/"}] : n \in 0..MaxUrlLen}

InitConstruct == InitWith({"None", "", "k2"})

NextConstruct ==
    \/ /\ constructed = "new"
       /\ \E k \in {"None", "", "k1"}, u \in Urls,
             t \in {DefaultTimeout, 2 * DefaultTimeout},
             n \in RetryChoices, b \in BackoffChoices :
             Construct(k, u, t, n, b)
    \/ \E c \in Callers, t \in ToolNames, p \in ParameterValues :
          ExecuteTool(c, t, p)
    \/ \E c \in Callers, r \in FewResponses : Post(c, r)
    \/ \E c \in Callers : Wake(c)

SpecConstruct == InitConstruct /\ [][NextConstruct]_vars

\* Long retry loops: one client per retry count up to MaxSleeps against one
\* answer of each kind.
BackoffResponses ==
    {TransportFailure, TextBody(500), OuterOnly(200, "false"), TextBody(200),
     TextBody(403), Envelope(200, "true", "false", "str:X", "absent"),
     Envelope(200, "true", "true", "absent", "str:X")}

NextBackoff ==
    \/ \E n \in 0..MaxSleeps, b \in BackoffChoices :
          Construct("k1", DefaultBaseUrl, DefaultTimeout, n, b)
    \/ \E c \in Callers : ExecuteTool(c, "t", "None")
    \/ \E c \in Callers, r \in BackoffResponses : Post(c, r)
    \/ \E c \in Callers : Wake(c)

SpecBackoff == Init /\ [][NextBackoff]_vars

\* Call after call on one client, against four kinds of answer.
RepeatResponses ==
    {TextBody(500), OuterOnly(200, "false"),
     Envelope(200, "true", "false", "str:X", "absent"),
     Envelope(200, "true", "true", "absent", "str:X")}

NextRepeat ==
    \/ \E n \in RetryChoices :
          Construct("k1", DefaultBaseUrl, DefaultTimeout, n, DefaultBackoffMs)
    \/ \E c \in Callers, t \in {"", "t"}, p \in {"None", "{param:value}"} :
          ExecuteTool(c, t, p)
    \/ \E c \in Callers, t \in {"", "t"}, p \in {"None", "{param:value}"} :
          ExecuteToolAgain(c, t, p)
    \/ \E c \in Callers, r \in RepeatResponses : Post(c, r)
    \/ \E c \in Callers : Wake(c)

SpecRepeat == Init /\ [][NextRepeat]_vars

\* Several callers inside execute_tool on one client at once, their loop
\* iterations and sleeps interleaved in every order.
ConcurrentCallers == 1..MaxCallers

ConcurrentResponses ==
    {TextBody(500), TextBody(401),
     Envelope(200, "true", "true", "absent", "str:X")}

InitConcurrent == InitFor({"None"}, ConcurrentCallers)

NextConcurrent ==
    \/ \E n \in RetryChoices :
          Construct("k1", DefaultBaseUrl, DefaultTimeout, n, DefaultBackoffMs)
    \/ \E c \in ConcurrentCallers : ExecuteTool(c, "t", "None")
    \/ \E c \in ConcurrentCallers, r \in ConcurrentResponses : Post(c, r)
    \/ \E c \in ConcurrentCallers : Wake(c)

SpecConcurrent == InitConcurrent /\ [][NextConcurrent]_vars

\* One call against every backend answer, where a request that was sent is
\* answered (or fails) and a sleep that was started ends: requests.post is
\* bounded by timeout and time.sleep by its argument.
NextTerminate ==
    \/ \E n \in RetryChoices :
          Construct("k1", DefaultBaseUrl, DefaultTimeout, n, DefaultBackoffMs)
    \/ \E c \in Callers, t \in {"", "t"} : ExecuteTool(c, t, "None")
    \/ \E c \in Callers, r \in Responses : Post(c, r)
    \/ \E c \in Callers : Wake(c)

SpecTerminate ==
    /\ Init
    /\ [][NextTerminate]_vars
    /\ WF_vars(\E c \in Callers, r \in Responses : Post(c, r))
    /\ WF_vars(\E c \in Callers : Wake(c))

----------------------------------------------------------------------------
(* Vocabulary of the properties, stated on what the backend sent and on    *)
(* what the caller observed, not on the classification above.              *)

Frames == {calls[c] : c \in DOMAIN calls}

\* A call the retry loop serves: a tool name was given, retries = N >= 0.
Served(f) ==
    /\ constructed = "ok"
    /\ f.pc # "idle"
    /\ f.tool \notin {"None", ""}
    /\ client.retries >= 0

NetworkCalls(f) == Len(f.history)

IsHttpResponse(r) == r.body # "none"

IsAuthResponse(r) == IsHttpResponse(r) /\ r.status \in {401, 403}

\* status < 400 and both envelope layers report success
IsDoubleSuccess(r) ==
    /\ IsHttpResponse(r) /\ r.status < 400
    /\ r.body = "obj" /\ r.success = "true"
    /\ r.data = "obj" /\ r.isuccess = "true"

\* status < 400, the outer envelope reports success, the inner envelope (the
\* data object, or no data field at all) has a false or missing success flag
IsToolFailure(r) ==
    /\ IsHttpResponse(r) /\ r.status < 400
    /\ r.body = "obj" /\ r.success = "true"
    /\ r.data \in {"obj", "absent"}
    /\ r.isuccess \in {"false", "absent"}

Raised(f, class) ==
    /\ f.pc = "done"
    /\ f.outcome.kind = "raise"
    /\ f.outcome.exc.class = class

Returned(f, value) ==
    /\ f.pc = "done"
    /\ f.outcome.kind = "return"
    /\ f.outcome.value = value

\* The Python value of the result field R: None (JSON null) when it is absent.
Unwrapped(result) == IF result = "absent" THEN "null" ELSE result

----------------------------------------------------------------------------
\* C1: with retries = N >= 0 and a backend that answers every attempt with
\* HTTP 500, a finished call with a tool name has made exactly N+1 network
\* calls and raised a DatagenHttpError carrying status 500.
C1_RetriesExhausted ==
    \A f \in Frames :
        ( /\ Served(f)
          /\ f.pc = "done"
          /\ \A i \in 1..Len(f.history) :
                IsHttpResponse(f.history[i]) /\ f.history[i].status = 500 )
        => /\ NetworkCalls(f) = client.retries + 1
           /\ Raised(f, "DatagenHttpError")
           /\ f.outcome.exc.status = 500

C1_Witness ==
    \E f \in Frames :
        /\ Served(f)
        /\ client.retries = MaxRetries
        /\ NetworkCalls(f) = MaxRetries + 1
        /\ \A i \in 1..Len(f.history) : f.history[i] = TextBody(500)
        /\ Raised(f, "DatagenHttpError")
        /\ f.outcome.exc.status = 500

\* C2: with retries = N >= 0, while the backend has answered only HTTP 500
\* and at most N times, the call is still running and nothing has been
\* raised; when the first N answers are HTTP 500 and answer N+1 is a doubly
\* successful envelope, the call has returned that envelope's inner result
\* after exactly N+1 network calls.
C2_RetryThenSuccess ==
    \A f \in Frames :
        Served(f) =>
            LET h == f.history
                N == client.retries
                failed(k) == \A i \in 1..k :
                    IsHttpResponse(h[i]) /\ h[i].status = 500
            IN /\ (Len(h) <= N /\ failed(Len(h)))
                    => f.pc \in {"post", "sleep"} /\ f.outcome.kind = "none"
               /\ (Len(h) > N /\ failed(N) /\ IsDoubleSuccess(h[N + 1]))
                    => /\ Returned(f, Unwrapped(h[N + 1].result))
                       /\ NetworkCalls(f) = N + 1

C2_Witness ==
    \E f \in Frames :
        /\ Served(f)
        /\ client.retries = MaxRetries
        /\ NetworkCalls(f) = MaxRetries + 1
        /\ \A i \in 1..MaxRetries : f.history[i] = TextBody(500)
        /\ IsDoubleSuccess(f.history[MaxRetries + 1])
        /\ Returned(f, "obj:{status:ok}")

\* C3: an HTTP 401 or 403 answer ends the call at once with a
\* DatagenAuthError, whatever retries is: when it is the first answer, exactly
\* one network call was made and no backoff sleep occurred; in general it is
\* the last network call and no sleep follows it.
C3_AuthNotRetried ==
    \A f \in Frames :
        \A i \in 1..Len(f.history) :
            IsAuthResponse(f.history[i])
            => /\ Raised(f, "DatagenAuthError")
               /\ NetworkCalls(f) = i
               /\ Len(f.sleeps) = i - 1

C3_Witness ==
    \E f \in Frames :
        /\ client.retries > 0
        /\ NetworkCalls(f) = 1
        /\ f.history[1].status = 403
        /\ f.sleeps = <<>>
        /\ Raised(f, "DatagenAuthError")

\* C4 (as stated): a first answer that is a tool failure ends the call with a
\* DatagenToolError after exactly one network call, carrying the inner error
\* field whenever the field is present and the generic message when absent.
C4_Original ==
    \A f \in Frames :
        (f.history # <<>> /\ IsToolFailure(f.history[1]))
        => /\ Raised(f, "DatagenToolError")
           /\ NetworkCalls(f) = 1
           /\ f.outcome.exc.detail =
                 IF f.history[1].ierror # "absent"
                 THEN f.history[1].ierror
                 ELSE "Tool reported failure"

\* C4 (amended): a first answer that is a tool failure ends the call with a
\* DatagenToolError after exactly one network call and no sleep, whatever
\* retries is; the error carries the inner error field when that field is
\* present and not empty, and the generic message when it is absent or empty.
C4_ToolFailure ==
    \A f \in Frames :
        (f.history # <<>> /\ IsToolFailure(f.history[1]))
        => /\ Raised(f, "DatagenToolError")
           /\ NetworkCalls(f) = 1
           /\ f.sleeps = <<>>
           /\ f.history[1].ierror = "str:X"
                 => f.outcome.exc.detail = "str:X"
           /\ f.history[1].ierror \in {"absent", "str:"}
                 => f.outcome.exc.detail = "Tool reported failure"

C4_Witness ==
    \E f \in Frames :
        /\ client.retries > 0
        /\ NetworkCalls(f) = 1
        /\ IsToolFailure(f.history[1])
        /\ f.history[1].ierror = "str:X"
        /\ Raised(f, "DatagenToolError")
        /\ f.outcome.exc.detail = "str:X"

\* C5: for any sequence of backend answers and retries = N >= 0, a finished
\* call has made as many network calls as the position of the first answer
\* that is a success, an authentication failure or a tool failure, or N+1 if
\* there is none.
C5_CallCount ==
    \A f \in Frames :
        (Served(f) /\ f.pc = "done")
        => LET final == {i \in 1..Len(f.history) :
                            \/ IsDoubleSuccess(f.history[i])
                            \/ IsAuthResponse(f.history[i])
                            \/ IsToolFailure(f.history[i])}
           IN IF final # {}
              THEN \E i \in final :
                      /\ \A j \in final : i <= j
                      /\ NetworkCalls(f) = i
              ELSE NetworkCalls(f) = client.retries + 1

\* C6: a doubly successful envelope with status < 400 makes the call return
\* exactly its inner result value, unchanged; null and an absent result field
\* both come back as None.
C6_ReturnsInnerResult ==
    \A f \in Frames :
        \A i \in 1..Len(f.history) :
            IsDoubleSuccess(f.history[i])
            => /\ i = NetworkCalls(f)
               /\ Returned(f, Unwrapped(f.history[i].result))

C6_Witness ==
    \E f \in Frames :
        /\ NetworkCalls(f) = 1
        /\ IsDoubleSuccess(f.history[1])
        /\ f.history[1].result = "false"
        /\ Returned(f, "false")

\* C7: execute_tool called with an empty or missing tool name raises
\* ValueError without any network call or sleep, for every parameters value
\* and every client configuration.
C7_EmptyToolName ==
    \A f \in Frames :
        (f.pc # "idle" /\ f.tool \in {"None", ""})
        => /\ Raised(f, "ValueError")
           /\ f.history = <<>>
           /\ f.sleeps = <<>>

C7_Witness ==
    \E f \in Frames :
        /\ f.tool = ""
        /\ f.parameters = "{param:value}"
        /\ client.retries = MaxRetries
        /\ client.timeout # DefaultTimeout
        /\ Raised(f, "ValueError")
        /\ f.history = <<>>

\* C8: once __init__ has run, it has failed with a DatagenAuthError exactly
\* when neither the api_key argument nor DATAGEN_API_KEY holds a non-empty
\* credential, whatever the other arguments are, and otherwise the client
\* holds the argument if it is one, else the environment's value; without a
\* client no call has started and no network call was made.
C8_CredentialRequired ==
    /\ constructed # "new" =>
          IF ctorArgs.api_key \in {"None", ""} /\ env \in {"None", ""}
          THEN constructed = "failed" /\ ctorErr.class = "DatagenAuthError"
          ELSE /\ constructed = "ok"
               /\ ctorErr = NoExc
               /\ client.api_key =
                     IF ctorArgs.api_key \notin {"None", ""}
                     THEN ctorArgs.api_key
                     ELSE env
    /\ constructed # "ok" =>
          \A f \in Frames : f.pc = "idle" /\ f.history = <<>>

C8_Witness ==
    /\ constructed = "failed"
    /\ ctorErr.class = "DatagenAuthError"
    /\ ctorArgs.api_key = "None"
    /\ env = "None"
    /\ ctorArgs.retries = MaxRetries
    /\ ctorArgs.timeout # DefaultTimeout
    /\ Len(ctorArgs.base_url) = MaxUrlLen

\* C9 (as stated): the stored endpoint is the argument with exactly one
\* trailing "/" removed when it ends in one, and the argument itself
\* otherwise.
C9_Original ==
    constructed = "ok" =>
        LET u == ctorArgs.base_url IN
        IF u # <<>> /\ u[Len(u)] = "/"
        THEN client.base_url = SubSeq(u, 1, Len(u) - 1)
        ELSE client.base_url = u

\* C9 (amended): the stored endpoint is the argument with every trailing "/"
\* removed: it is a prefix of the argument, it does not end in "/", and all
\* that was cut off is "/"; an argument with no trailing "/" is unchanged.
C9_StripsAllTrailing ==
    constructed = "ok" =>
        LET u == ctorArgs.base_url
            b == client.base_url
        IN /\ Len(b) <= Len(u)
           /\ b = SubSeq(u, 1, Len(b))
           /\ b # <<>> => b[Len(b)] # "/"
           /\ \A i \in (Len(b) + 1)..Len(u) : u[i] = "/"
           /\ (u = <<>> \/ u[Len(u)] # "/") => b = u

C9_Witness ==
    /\ constructed = "ok"
    /\ ctorArgs.base_url = <<"h", "/", "/">>
    /\ client.base_url = <<"h">>

\* C10: when every one of the retries+1 attempts fails in the transport, the
\* call has made retries+1 network calls and the error raised is of the
\* DatagenHttpError kind.
C10_TransportIsHttp ==
    \A f \in Frames :
        ( /\ Served(f)
          /\ f.pc = "done"
          /\ \A i \in 1..Len(f.history) : ~IsHttpResponse(f.history[i]) )
        => /\ NetworkCalls(f) = client.retries + 1
           /\ f.outcome.kind = "raise"
           /\ IsSubclass(f.outcome.exc.class, "DatagenHttpError")

----------------------------------------------------------------------------
\* C11: whatever the backend answers (a body that is not JSON, a JSON body
\* that is not an object and a data field that is not an object included),
\* an error raised by __init__ or execute_tool is of a kind of the taxonomy:
\* DatagenAuthError, ValueError (the invalid argument), DatagenHttpError,
\* DatagenToolError or the generic DatagenError; and a call that has raised
\* has returned no value.
C11_TypedErrors ==
    LET Taxonomy == {"DatagenAuthError", "ValueError", "DatagenHttpError",
                     "DatagenToolError", "DatagenError"}
    IN /\ constructed = "failed" => ctorErr.class \in Taxonomy
       /\ \A f \in Frames :
             f.pc = "done" =>
                \/ f.outcome.kind = "return" /\ f.outcome.exc = NoExc
                \/ /\ f.outcome.kind = "raise"
                   /\ f.outcome.value = "None"
                   /\ f.outcome.exc.class \in Taxonomy

\* status < 400 and an outer envelope whose success flag is false or missing
IsOuterFailure(r) ==
    /\ IsHttpResponse(r) /\ r.status < 400
    /\ r.body = "obj" /\ r.success \in {"false", "absent"}

\* C12: answers with status < 400 whose outer success flag is false or
\* missing are Http errors and are retried: with retries = N, while at most N
\* such answers have come the call is still running with a DatagenHttpError
\* captured, and when all N+1 answers are such the call has raised a
\* DatagenHttpError after exactly N+1 network calls, whatever the inner
\* envelope holds.
C12_OuterFailureRetried ==
    \A f \in Frames :
        Served(f) =>
            LET h == f.history
                N == client.retries
                allOuter == \A i \in 1..Len(h) : IsOuterFailure(h[i])
            IN /\ (h # <<>> /\ Len(h) <= N /\ allOuter)
                    => /\ f.pc \in {"post", "sleep"}
                       /\ f.outcome.kind = "none"
                       /\ f.last_exc.class = "DatagenHttpError"
               /\ (Len(h) > N /\ allOuter)
                    => /\ NetworkCalls(f) = N + 1
                       /\ Raised(f, "DatagenHttpError")
                       /\ f.outcome.exc.detail = "Unexpected response"

C12_Witness ==
    \E f \in Frames :
        /\ Served(f)
        /\ client.retries = MaxRetries
        /\ NetworkCalls(f) = MaxRetries + 1
        /\ \A i \in 1..Len(f.history) : IsOuterFailure(f.history[i])
        /\ f.history[1].success = "absent"
        /\ f.history[MaxRetries + 1] =
              Envelope(200, "false", "true", "absent", "str:X")
        /\ Raised(f, "DatagenHttpError")

\* C13: the status decides before the body.  A 401/403 answer raises a
\* DatagenAuthError and any other answer with status >= 400 is an Http error
\* carrying that status (captured for a retry, or raised when it is the last
\* attempt), whatever the body holds, a doubly successful envelope included;
\* a value is returned only for a doubly successful envelope with
\* status < 400.
C13_StatusBeforeBody ==
    \A f \in Frames :
        LET h == f.history
            n == Len(h)
        IN /\ \A i \in 1..n :
                IsAuthResponse(h[i])
                => i = n /\ Raised(f, "DatagenAuthError")
           /\ (n > 0 /\ IsHttpResponse(h[n]) /\ h[n].status >= 400
                     /\ ~IsAuthResponse(h[n]))
                => /\ f.last_exc.class = "DatagenHttpError"
                   /\ f.last_exc.status = h[n].status
                   /\ \/ f.pc \in {"sleep", "post"} /\ f.outcome.kind = "none"
                      \/ /\ Raised(f, "DatagenHttpError")
                         /\ f.outcome.exc.status = h[n].status
           /\ f.outcome.kind = "return"
                => n > 0 /\ IsDoubleSuccess(h[n]) /\ h[n].status < 400

C13_Witness ==
    \E f \in Frames :
        /\ NetworkCalls(f) = 2
        /\ f.history[1] = TextBody(400)
        /\ f.history[2] = Envelope(500, "true", "true", "absent", "str:X")
        /\ Raised(f, "DatagenHttpError")
        /\ f.outcome.exc.status = 500

\* C14: the k-th sleep of a call lasts backoff_seconds * 2^(k-1), with no
\* jitter and no cap, and the sleeps alternate with the attempts: as many
\* sleeps as attempts while the call sleeps or is about to post again, one
\* fewer than attempts once it has ended, none before the first attempt.
C14_BackoffSchedule ==
    \A f \in Frames :
        /\ \A j \in 1..Len(f.sleeps) :
              f.sleeps[j] = client.backoff_seconds * (2 ^ (j - 1))
        /\ f.pc \in {"sleep", "post"} => Len(f.sleeps) = Len(f.history)
        /\ f.pc = "sleep" => f.history # <<>>
        /\ (f.pc = "done" /\ f.history # <<>>)
              => Len(f.sleeps) = Len(f.history) - 1
        /\ f.history = <<>> => f.sleeps = <<>>

C14_Witness ==
    \E f \in Frames :
        /\ f.pc = "done"
        /\ client.backoff_seconds = DefaultBackoffMs
        /\ NetworkCalls(f) = MaxSleeps + 1
        /\ Len(f.sleeps) = MaxSleeps
        /\ f.sleeps[1] = DefaultBackoffMs
        /\ f.sleeps[MaxSleeps] = DefaultBackoffMs * (2 ^ (MaxSleeps - 1))

\* an answer with status >= 400 other than 401/403
IsHttpFailure(r) ==
    IsHttpResponse(r) /\ r.status >= 400 /\ ~IsAuthResponse(r)

\* C15: when all retries+1 attempts fail with retry-eligible failures
\* (transport failure, status >= 400, outer envelope failure), the error
\* raised is the one of the final attempt: it carries the final answer's
\* status and body text, or the outer-failure message, or is the final
\* transport failure, whatever the earlier attempts failed with.
C15_LastErrorRaised ==
    \A f \in Frames :
        LET h == f.history
            n == Len(h)
        IN ( /\ Served(f)
             /\ f.pc = "done"
             /\ n = client.retries + 1
             /\ \A i \in 1..n : \/ ~IsHttpResponse(h[i])
                                \/ IsHttpFailure(h[i])
                                \/ IsOuterFailure(h[i]) )
           => /\ f.outcome.kind = "raise"
              /\ f.outcome.exc = f.last_exc
              /\ IsHttpFailure(h[n])
                    => /\ f.outcome.exc.class = "DatagenHttpError"
                       /\ f.outcome.exc.status = h[n].status
                       /\ f.outcome.exc.detail = h[n].text
              /\ IsOuterFailure(h[n])
                    => /\ f.outcome.exc.class = "DatagenHttpError"
                       /\ f.outcome.exc.status = 0
                       /\ f.outcome.exc.detail = "Unexpected response"
              /\ ~IsHttpResponse(h[n])
                    => f.outcome.exc.class = "requests.ConnectionError"

C15_Witness ==
    \E f \in Frames :
        /\ Served(f)
        /\ client.retries = 2
        /\ f.history = <<TextBody(500), TextBody(503), OuterOnly(200, "false")>>
        /\ Raised(f, "DatagenHttpError")
        /\ f.outcome.exc.detail = "Unexpected response"

\* C16: for every client that __init__ accepts and every backend, no call
\* leaves the retry loop with neither a returned result nor a captured
\* error: the generic DatagenError "Unknown error during tool execution" is
\* never raised.
C16_FallbackUnreachable ==
    \A f \in Frames :
        ~( /\ f.outcome.kind = "raise"
           /\ f.outcome.exc.class = "DatagenError" )

IsPrefix(a, b) == Len(a) <= Len(b) /\ a = SubSeq(b, 1, Len(a))

\* A caller's finished call and its finished call before it were the same
\* call (same tool, same parameters) and the backend answered them alike, as
\* far as both asked.
SameCallSameAnswers(p, f) ==
    /\ p.pc = "done" /\ f.pc = "done"
    /\ p.tool = f.tool
    /\ p.parameters = f.parameters
    /\ IsPrefix(p.history, f.history) \/ IsPrefix(f.history, p.history)

\* C17: no step of execute_tool changes the client's attributes, whether the
\* call returns or raises; a call that has just entered the loop starts at
\* attempt 0 with no captured error and no sleep, whatever the call before it
\* left; and a repeated identical call against a backend answering
\* identically makes the same network calls and sleeps and ends with the
\* same outcome.
C17_CallsIndependent ==
    /\ [][constructed = "ok" => client' = client]_vars
    /\ [](\A c \in DOMAIN calls :
            LET f == calls[c]
                p == previous[c]
            IN /\ (f.pc = "post" /\ f.history = <<>>)
                    => f.attempt = 0 /\ f.last_exc = NoExc /\ f.sleeps = <<>>
               /\ SameCallSameAnswers(p, f)
                    => /\ f.history = p.history
                       /\ f.sleeps = p.sleeps
                       /\ f.outcome = p.outcome)

C17_Witness ==
    \E c \in DOMAIN calls :
        /\ client.retries = MaxRetries
        /\ SameCallSameAnswers(previous[c], calls[c])
        /\ NetworkCalls(calls[c]) = MaxRetries + 1
        /\ NetworkCalls(previous[c]) = MaxRetries + 1
        /\ Raised(previous[c], "DatagenHttpError")
        /\ Raised(calls[c], "DatagenHttpError")

\* The frame of a call of f's tool and parameters that runs alone on the
\* client and has received the answers h, up to the end of the iteration
\* that received the last of them.
RECURSIVE Alone(_, _)
Alone(f, h) ==
    IF h = <<>>
    THEN Enter(f.tool, f.parameters)
    ELSE LET g == Alone(f, SubSeq(h, 1, Len(h) - 1))
             woken == IF g.pc = "sleep" THEN Continue(g, g.attempt) ELSE g
         IN Iterate(woken, h[Len(h)], woken.attempt)

\* C18: with several callers inside execute_tool on the same client, under
\* every interleaving of their attempts and sleeps, each call's frame
\* (attempt counter, captured error, network calls, sleeps, outcome) is the
\* frame the same call reaches alone on the answers to its own requests.
C18_NoInterference ==
    \A c \in DOMAIN calls :
        LET f == calls[c]
            a == Alone(f, f.history)
        IN f.pc # "idle" =>
              \/ f = a
              \/ a.pc = "sleep" /\ f = Continue(a, a.attempt)

C18_Witness ==
    /\ Cardinality(DOMAIN calls) >= 2
    /\ client.retries = MaxRetries
    /\ calls[1].pc = "sleep"
    /\ NetworkCalls(calls[1]) = 1
    /\ calls[1].attempt = 0
    /\ NetworkCalls(calls[2]) = MaxRetries + 1
    /\ calls[2].attempt = MaxRetries
    /\ Raised(calls[2], "DatagenHttpError")

\* C19: when every request and every sleep completes, a call with a tool
\* name on a client with retries = N >= 0 ends (result or error) after at
\* least 1 and at most N + 1 network calls and at most N sleeps; with
\* retries = 0 it makes exactly one network call and never sleeps, whatever
\* the answer.
C19_Terminates ==
    /\ [](\A c \in DOMAIN calls :
            LET f == calls[c] IN
            (Served(f) /\ client.retries >= 0) =>
               /\ NetworkCalls(f) <= client.retries + 1
               /\ Len(f.sleeps) <= client.retries
               /\ f.pc = "done" => NetworkCalls(f) >= 1
               /\ (f.pc = "done" /\ client.retries = 0) =>
                     NetworkCalls(f) = 1 /\ f.sleeps = <<>>)
    /\ \A c \in Callers :
          (calls[c].pc \in {"post", "sleep"}) ~> (calls[c].pc = "done")

C19_Witness ==
    \E c \in DOMAIN calls :
        /\ client.retries = MaxRetries
        /\ calls[c].pc = "done"
        /\ NetworkCalls(calls[c]) = MaxRetries + 1
        /\ Len(calls[c].sleeps) = MaxRetries
        /\ Returned(calls[c], "str:X")

\* C20: the constructor does not validate retries: with a credential, a
\* negative retries value is accepted and stored as given, and on that client
\* execute_tool with a tool name makes no network call, never sleeps and
\* raises the base DatagenError itself (not Http, Auth or Tool).
C20_NegativeRetriesAccepted ==
    (constructed # "new" /\ ctorArgs.retries < 0
        /\ PyTruthy(PyOr(ctorArgs.api_key, env))) =>
       /\ constructed = "ok"
       /\ ctorErr = NoExc
       /\ client.retries = ctorArgs.retries
       /\ \A c \in DOMAIN calls :
             LET f == calls[c] IN
             (f.pc # "idle" /\ f.tool \notin {"None", ""}) =>
                /\ Raised(f, "DatagenError")
                /\ f.outcome.exc.class \notin
                      {"DatagenHttpError", "DatagenAuthError",
                       "DatagenToolError"}
                /\ NetworkCalls(f) = 0
                /\ f.sleeps = <<>>

C20_Witness ==
    \E c \in DOMAIN calls :
        /\ constructed = "ok"
        /\ ctorArgs.retries < 0
        /\ client.retries < 0
        /\ calls[c].tool = "t"
        /\ Raised(calls[c], "DatagenError")
        /\ NetworkCalls(calls[c]) = 0

====
